---- MODULE Spec2Model ----
(***************************************************************************)
(* Graph-RAG-Framework: the Neo4j store wrapper (components/graph_db.py),  *)
(* knowledge-graph extraction and Cypher QA (components/                   *)
(* knowledge_graph.py), document preprocessing (utils/preprocessing.py),   *)
(* the option parser (options/*.py) and the pipeline driver (train.py).    *)
(*                                                                         *)
(* Python exceptions are records [type, msg, cause, ctype]; `cause` is the *)
(* text of the exception an `except` handler wrapped into a RuntimeError   *)
(* and `ctype` that exception's type.  Reading an attribute an object does *)
(* not have raises AttributeError, as in Python.                           *)
(***************************************************************************)
EXTENDS Integers, Sequences, FiniteSets, TLC

VARIABLES
    opt,        \* Neo4jStore._opt: the options object the store was built with
    graph,      \* Neo4jStore.graph: None, or the Neo4jGraph with its cached schema
    vector,     \* Neo4jStore.vector: attribute unset, or the Neo4jVector handle
    db,         \* the Neo4j database behind the connection (nodes, relationships)
    lastOp,     \* the last call made by a caller, with its outcome and external calls
    runPc,      \* position of train.run()
    runLog,     \* stages train.run() has completed, in order, and its error
    proc,       \* the last DocumentProcessor.process_documents() call and its outcome
    factory     \* the last GetLLM / GetEmbeddings call: its arguments and its outcome

vars == <<opt, graph, vector, db, lastOp, runPc, runLog, proc, factory>>

-----------------------------------------------------------------------------
(* Bounds of the model *)

MaxFiles == 2       \* files in the input directory
MaxTextLen == 3     \* characters of one page
MaxChunkSize == 2   \* largest chunk_size / chunk_overlap tried

-----------------------------------------------------------------------------
(* Exceptions *)

NoErr == [type |-> "none", msg |-> "", cause |-> "", ctype |-> ""]

Err(t, m) == [type |-> t, msg |-> m, cause |-> "", ctype |-> ""]

\* except Exception as e: raise RuntimeError(f"<m>: {e}")
Wrap(m, e) == [type |-> "RuntimeError", msg |-> m, cause |-> e.msg, ctype |-> e.type]

\* Reading an attribute the object does not have.
AttributeError(a) == Err("AttributeError", a)

HasAttr(o, a) == a \in DOMAIN o

-----------------------------------------------------------------------------
(* Options: options/base_options.py, options/train_options.py *)

SearchTypes == {"vector", "keyword", "hybrid"}

\* A comma-separated string option is the tuple of its items.
DefaultAllowedNodes == <<"Patient", "Disease", "Medication", "Test", "Symptom", "Doctor">>

\* The Namespace TrainOptions().parse() returns: one attribute per add_argument,
\* named after the flag.  cli gives the flags passed on the command line.
TrainOptions_parse(cli) ==
    [LangChainAPIKey |-> "<yoour-api-key>",
     OpenAPIKey |-> "<your-api-key>",
     Neo4jURI |-> "neo4j+s://your-neo4j-instance",
     Neo4jUserName |-> "your-username",
     Neo4jPassword |-> "your-password",
     Neo4jDatabase |-> "your-database",
     LLMProvider |-> [list |-> <<"OpenAI", "Antropic", "Google">>],
     OpenAILLM |-> <<"gpt-4o", "gpt-4o-mini", "gpt-4", "gpt-3.5-turbo">>,
     AntropicILLM |-> <<"claude-2", "claude-instant-100k", "claude-1", "claude-1.3">>,
     GoogleLLM |-> <<"claude-2", "claude-instant-100k", "claude-1", "claude-1.3">>,
     EmbeddingModel |-> "OpenAI",
     ChunkSize |-> 200,
     ChunkOverlap |-> 40,
     AllowedNodes |-> IF HasAttr(cli, "AllowedNodes") THEN cli.AllowedNodes
                      ELSE DefaultAllowedNodes,
     AllowedRelationships |-> IF HasAttr(cli, "AllowedRelationships")
                              THEN cli.AllowedRelationships ELSE <<>>,
     NodeProperties |-> FALSE,
     RelationshipProperties |-> FALSE,
     ClearGraph |-> IF HasAttr(cli, "ClearGraph") THEN cli.ClearGraph ELSE TRUE,
     NodeLabel |-> "Patient",
     TextNodeProperties |-> "id,text",
     EmbeddingNodeProperty |-> "embedding",
     VectorIndexName |-> "vector_index",
     KeywordIndexName |-> "entity_index",
     SearchType |-> IF HasAttr(cli, "SearchType") THEN cli.SearchType ELSE "hybrid"]

\* The command lines tried: no flag given.
CommandLines == {<<>>}

\* An options object "or similar" (the docstrings' words) that carries the
\* attributes the components read: Neo4jStore reads uri .. search_type,
\* create_knowledge_graph reads allowed_nodes .. relationship_properties.
ComponentOpt(st, an, ar) ==
    [uri |-> "bolt://db", username |-> "u", password |-> "p", database |-> "d",
     embeddings |-> "emb", node_label |-> "Patient", text_node_properties |-> "id,text",
     embedding_node_property |-> "embedding", index_name |-> "vector_index",
     keyword_index_name |-> "entity_index", search_type |-> st,
     allowed_nodes |-> an, allowed_relationships |-> ar,
     node_properties |-> FALSE, relationship_properties |-> FALSE,
     test_knowledge_graph |-> TRUE]

\* Options objects the store is built with.
StoreOpts ==
    {TrainOptions_parse(c) : c \in CommandLines}
    \cup {ComponentOpt(st, {}, {}) : st \in {"vector", "hybrid"}}

\* Options objects handed to create_knowledge_graph.
GraphOpts ==
    {TrainOptions_parse(c) : c \in CommandLines}
    \cup {ComponentOpt("hybrid", {}, {}),
          ComponentOpt("hybrid", {"Patient", "Doctor"}, {}),
          ComponentOpt("hybrid", {"Patient", "Doctor"}, {"ADMITTED"})}

-----------------------------------------------------------------------------
(* The graph database and langchain's Neo4jGraph, as the code uses them *)

\* The chunks of a batch, named by their position.
ChunkNames == <<"c1", "c2">>
ChunkIds == {ChunkNames[i] : i \in 1..Len(ChunkNames)}

Patient1 == <<"Patient", "p1">>
Doctor1 == <<"Doctor", "d1">>
Hospital1 == <<"Hospital", "h1">>
Treats == <<Doctor1, "TREATS", Patient1>>
Admitted == <<Patient1, "ADMITTED", Hospital1>>

DocumentNode(c) == <<"Document", c>>
Mentions(c, n) == <<DocumentNode(c), "MENTIONS", n>>

EntityNodes == {Patient1, Doctor1, Hospital1}
NodeUniverse == EntityNodes \cup {DocumentNode(c) : c \in ChunkIds}
RelUniverse == {Treats, Admitted} \cup {Mentions(c, n) : c \in ChunkIds, n \in EntityNodes}

\* What the extraction model may return for one chunk: candidate nodes
\* (label, id) and relationships (source, type, target).
Candidates ==
    {[nodes |-> {Patient1}, rels |-> {}],
     [nodes |-> {Patient1, Doctor1, Hospital1}, rels |-> {Treats, Admitted}]}

\* The database holds a number of copies of each node and relationship.
EmptyDb == [nodes |-> [k \in NodeUniverse |-> 0], rels |-> [k \in RelUniverse |-> 0]]

\* Cypher MERGE: create the element unless one with that key exists.
Merge(count) == IF count = 0 THEN 1 ELSE count

MergeNodes(d, ks) ==
    [d EXCEPT !.nodes = [k \in NodeUniverse |-> IF k \in ks THEN Merge(d.nodes[k])
                                                 ELSE d.nodes[k]]]

MergeRels(d, ks) ==
    [d EXCEPT !.rels = [k \in RelUniverse |-> IF k \in ks THEN Merge(d.rels[k])
                                               ELSE d.rels[k]]]

\* ImportGraphDocument with the source Document node created, not merged.
ImportGraphDocument_create(d, gd, include_source) ==
    LET ends == {r[1] : r \in gd.rels} \cup {r[3] : r \in gd.rels}
        men == IF include_source THEN {Mentions(gd.source, n) : n \in gd.nodes} ELSE {}
        d1 == IF include_source
              THEN [d EXCEPT !.nodes[DocumentNode(gd.source)] = @ + 1] ELSE d
    IN  MergeRels(MergeNodes(d1, gd.nodes \cup ends), men \cup gd.rels)

\* Neo4jGraph.add_graph_documents for one GraphDocument: the source Document
\* node is merged on its id, every node on (label, id), every relationship on
\* (source, type, target) after merging its end nodes; with include_source a
\* MENTIONS relationship is merged from the Document node to every node.
ImportGraphDocument(d, gd, include_source) ==
    LET ends == {r[1] : r \in gd.rels} \cup {r[3] : r \in gd.rels}
        src == IF include_source THEN {DocumentNode(gd.source)} ELSE {}
        men == IF include_source THEN {Mentions(gd.source, n) : n \in gd.nodes} ELSE {}
    IN  MergeRels(MergeNodes(d, src \cup gd.nodes \cup ends), men \cup gd.rels)

RECURSIVE Neo4jGraph_add_graph_documents(_, _, _)
Neo4jGraph_add_graph_documents(d, gds, include_source) ==
    IF gds = <<>> THEN d
    ELSE Neo4jGraph_add_graph_documents(
             ImportGraphDocument(d, Head(gds), include_source), Tail(gds), include_source)

\* graph.query("MATCH (n) DETACH DELETE n;")
DetachDeleteAll(d) == EmptyDb

\* The schema Neo4jGraph.refresh_schema() reads from the database: the labels,
\* relationship types and property names present.
EmptySchema == [labels |-> {}, relTypes |-> {}, props |-> {}]

refresh_schema(d) ==
    LET ns == {k \in NodeUniverse : d.nodes[k] > 0}
        rs == {k \in RelUniverse : d.rels[k] > 0}
    IN  [labels |-> {k[1] : k \in ns},
         relTypes |-> {k[2] : k \in rs},
         props |-> (IF ns = {} THEN {} ELSE {"id"})
                   \cup (IF \E c \in ChunkIds : DocumentNode(c) \in ns THEN {"text"} ELSE {})]

\* self.graph: None until Neo4jGraph(...) has been constructed.  The Neo4jGraph
\* object keeps the schema it read when it was constructed.
None == [connected |-> FALSE, schema |-> EmptySchema]

Neo4jGraph(d) == [connected |-> TRUE, schema |-> refresh_schema(d)]

\* graph.get_schema: the schema the Neo4jGraph object holds.
get_schema(g) == g.schema

\* self.vector: __init__ does not assign it ("unset": the object has no such
\* attribute); create_hybrid_indexes assigns the Neo4jVector it built.
Unset == [state |-> "unset", search_type |-> "", embedding |-> ""]

\* Neo4jVector.from_existing_graph(embedding=..., search_type=...)
Neo4jVector(embedding, st) == [state |-> "handle", search_type |-> st, embedding |-> embedding]

\* The search methods langchain's Neo4jVector offers.
Neo4jVectorMethods == {"similarity_search", "similarity_search_with_score"}

-----------------------------------------------------------------------------
(* Calls and their records *)

\* The record of a call: its outcome, the external calls it issued, and the
\* arguments and results the properties speak about.
Op(name, err, calls) ==
    [op |-> name, err |-> err, calls |-> calls,
     frags |-> <<>>, include_source |-> FALSE,
     again |-> FALSE, cfgNodes |-> {}, cfgRels |-> {}, mode |-> "", out |-> "",
     ndocs |-> 0, failAt |-> 0, handle |-> Unset, prev |-> Unset, schema |-> EmptySchema]

NoOp == Op("none", NoErr, <<>>)

StoreAttrs == {"uri", "username", "password", "database"}

-----------------------------------------------------------------------------
(* components/graph_db.py: Neo4jStore.  Each method is given as the result it
   computes from the object's fields (and the outcome `ok` of the external
   call it makes): the exception raised, the external calls issued, and the
   fields after the call. *)

Result(err, calls, g, v, d) ==
    [err |-> err, calls |-> calls, graph |-> g, vector |-> v, db |-> d,
     out |-> "", gds |-> <<>>, schema |-> EmptySchema, handle |-> Unset]

\* Neo4jStore._connection
connection_result(o, g, v, d, ok) ==
    IF ~(StoreAttrs \subseteq DOMAIN o)
    THEN Result(Wrap("Failed to connect to Neo4j", AttributeError("uri")), <<>>, g, v, d)
    ELSE IF ~ok
    THEN Result(Wrap("Failed to connect to Neo4j", Err("ServiceUnavailable", "unreachable")),
                <<"db.connect">>, g, v, d)
    ELSE Result(NoErr, <<"db.connect", "db.schema">>, Neo4jGraph(d), v, d)

\* Neo4jStore.clear
clear_result(g, v, d, ok) ==
    IF ~g.connected
    THEN Result(Wrap("Failed to clear Neo4j database", Err("RuntimeError", "Graph not connected")),
                <<>>, g, v, d)
    ELSE IF ~ok
    THEN Result(Wrap("Failed to clear Neo4j database", Err("ClientError", "query failed")),
                <<"db.delete_all">>, g, v, d)
    ELSE Result(NoErr, <<"db.delete_all">>, g, v, DetachDeleteAll(d))

\* Neo4jStore.add_graph_documents
add_graph_documents_result(g, v, d, gds, include_source, ok) ==
    IF ~g.connected
    THEN Result(Wrap("Failed to add documents to Neo4j", Err("RuntimeError", "Graph not connected")),
                <<>>, g, v, d)
    ELSE IF ~ok
    THEN Result(Wrap("Failed to add documents to Neo4j", Err("ClientError", "query failed")),
                <<"db.merge">>, g, v, d)
    ELSE Result(NoErr, <<"db.merge">>, g, v,
                Neo4jGraph_add_graph_documents(d, gds, include_source))

IndexAttrs ==
    {"embeddings", "uri", "username", "password", "database", "node_label",
     "text_node_properties", "embedding_node_property", "index_name",
     "keyword_index_name", "search_type"}

\* create_hybrid_indexes that keeps the handle it already has.
create_hybrid_indexes_keep_first(o, g, v, d, ok) ==
    IF ~g.connected
    THEN Result(Err("RuntimeError", "Graph not connected."), <<>>, g, v, d)
    ELSE IF ~(IndexAttrs \subseteq DOMAIN o)
    THEN Result(Wrap("Failed to create hybrid indexes", AttributeError("embeddings")),
                <<>>, g, v, d)
    ELSE IF ~ok
    THEN Result(Wrap("Failed to create hybrid indexes", Err("ValueError", "index build failed")),
                <<"index.build">>, g, v, d)
    ELSE Result(NoErr, <<"index.build">>, g,
                IF v.state = "handle" THEN v ELSE Neo4jVector(o.embeddings, o.search_type), d)

\* create_hybrid_indexes without its check of self.graph.
create_hybrid_indexes_unguarded(o, g, v, d, ok) ==
    IF ~(IndexAttrs \subseteq DOMAIN o)
    THEN Result(Wrap("Failed to create hybrid indexes", AttributeError("embeddings")),
                <<>>, g, v, d)
    ELSE IF ~ok
    THEN Result(Wrap("Failed to create hybrid indexes", Err("ValueError", "index build failed")),
                <<"index.build">>, g, v, d)
    ELSE Result(NoErr, <<"index.build">>, g, Neo4jVector(o.embeddings, o.search_type), d)

\* Neo4jStore.create_hybrid_indexes
create_hybrid_indexes_result(o, g, v, d, ok) ==
    IF ~g.connected
    THEN Result(Err("RuntimeError", "Graph not connected."), <<>>, g, v, d)
    ELSE IF ~(IndexAttrs \subseteq DOMAIN o)
    THEN Result(Wrap("Failed to create hybrid indexes", AttributeError("embeddings")),
                <<>>, g, v, d)
    ELSE IF ~ok
    THEN Result(Wrap("Failed to create hybrid indexes", Err("ValueError", "index build failed")),
                <<"index.build">>, g, v, d)
    ELSE Result(NoErr, <<"index.build">>, g, Neo4jVector(o.embeddings, o.search_type), d)

\* The body shared by similarity_search and hybrid_search: `method` is the
\* method of self.vector the call is delegated to, `msg` the wrapper's text.
search_result(g, v, d, method, msg, ok) ==
    IF v.state = "unset"
    THEN Result(AttributeError("vector"), <<>>, g, v, d)
    ELSE IF v.state # "handle"
    THEN Result(Err("RuntimeError", "Vector index not initialized. Call create_hybrid_indexes()."),
                <<>>, g, v, d)
    ELSE IF method \notin Neo4jVectorMethods
    THEN Result(Wrap(msg, AttributeError(method)), <<>>, g, v, d)
    ELSE IF ~ok
    THEN [Result(Wrap(msg, Err("ClientError", "query failed")), <<"index.search">>, g, v, d)
          EXCEPT !.handle = v]
    ELSE [Result(NoErr, <<"index.search">>, g, v, d) EXCEPT !.out = v.search_type, !.handle = v]

\* Neo4jStore.similarity_search
similarity_search_result(g, v, d, with_score, ok) ==
    search_result(g, v, d,
                  IF with_score THEN "similarity_search_with_score" ELSE "similarity_search",
                  "Similarity search failed", ok)

\* Neo4jStore.hybrid_search
hybrid_search_result(g, v, d, with_score, ok) ==
    search_result(g, v, d,
                  IF with_score THEN "hybrid_search_with_score" ELSE "hybrid_search",
                  "Hybrid search failed", ok)

-----------------------------------------------------------------------------
(* components/knowledge_graph.py *)

\* getattr(opt, name, None); None and the empty list are both falsy.
getattr(o, a) == IF HasAttr(o, a) THEN o[a] ELSE {}

\* LLMGraphTransformer on one model response, in its (default) strict mode:
\* with allowed_nodes, nodes of other labels and relationships touching them
\* are dropped; with allowed_relationships, relationships of other types are.
process_response(cand, an, ar) ==
    LET ns == IF an = {} THEN cand.nodes ELSE {n \in cand.nodes : n[1] \in an}
        r1 == IF an = {} THEN cand.rels
              ELSE {r \in cand.rels : r[1][1] \in an /\ r[3][1] \in an}
        r2 == IF ar = {} THEN r1 ELSE {r \in r1 : r[2] \in ar}
    IN  [nodes |-> ns, rels |-> r2]

\* transformer.convert_to_graph_documents(docs): one GraphDocument per chunk.
convert_to_graph_documents(docs, cands, an, ar) ==
    [i \in 1..Len(docs) |->
        LET f == process_response(cands[i], an, ar)
        IN  [nodes |-> f.nodes, rels |-> f.rels, source |-> docs[i]]]

Repeat(x, n) == [i \in 1..n |-> x]

\* create_knowledge_graph that wipes the graph first when the options ask for it.
create_knowledge_graph_clearing(o, g, v, d, docs, cands, failAt, include_source, ok) ==
    IF ~g.connected
    THEN Result(Err("RuntimeError", "Graph not connected"), <<>>, g, v, d)
    ELSE LET d0 == IF HasAttr(o, "ClearGraph") /\ o.ClearGraph THEN DetachDeleteAll(d) ELSE d
             gds == convert_to_graph_documents(docs, cands, getattr(o, "allowed_nodes"),
                                               getattr(o, "allowed_relationships"))
         IN  [Result(NoErr, <<"db.delete_all", "db.merge">>, g, v,
                     Neo4jGraph_add_graph_documents(d0, gds, include_source))
              EXCEPT !.gds = gds]

\* create_knowledge_graph.  cands: the model's answer for each chunk; failAt:
\* the chunk on which the extraction model raises (0: none); ok: the database
\* accepts the writes.
create_knowledge_graph_result(o, g, v, d, docs, cands, failAt, include_source, ok) ==
    IF ~g.connected
    THEN Result(Err("RuntimeError", "Graph not connected"), <<>>, g, v, d)
    ELSE IF failAt > 0
    THEN Result(Err("APIError", "extraction failed"), Repeat("llm.extract", failAt), g, v, d)
    ELSE LET gds == convert_to_graph_documents(docs, cands, getattr(o, "allowed_nodes"),
                                               getattr(o, "allowed_relationships"))
             calls == Repeat("llm.extract", Len(docs))
         IN  IF ~ok
             THEN Result(Err("ClientError", "query failed"), Append(calls, "db.merge"), g, v, d)
             ELSE [Result(NoErr, Append(calls, "db.merge"), g, v,
                          Neo4jGraph_add_graph_documents(d, gds, include_source))
                   EXCEPT !.gds = gds]

\* Neo4jGraph.get_schema is a property holding a string, so the call
\* graph.get_schema() raises TypeError.
GetSchemaIsProperty == TRUE

\* cypher_qa.  genOk: the generation model answers; ok: the database runs the query.
cypher_qa_result(g, v, d, genOk, ok) ==
    IF ~g.connected
    THEN Result(Err("RuntimeError", "Graph not connected"), <<>>, g, v, d)
    ELSE IF GetSchemaIsProperty
    THEN Result(Err("TypeError", "'str' object is not callable"), <<>>, g, v, d)
    ELSE IF ~genOk
    THEN Result(Err("APIError", "generation failed"), <<"llm.generate">>, g, v, d)
    ELSE IF ~ok
    THEN Result(Err("ClientError", "query failed"), <<"llm.generate", "db.query">>, g, v, d)
    ELSE [Result(NoErr, <<"llm.generate", "db.query">>, g, v, d) EXCEPT !.schema = get_schema(g)]

-----------------------------------------------------------------------------
(* utils/preprocessing.py: DocumentProcessor.  A text is the sequence of its
   characters; the texts tried hold no separator of the splitter ("\n\n",
   "\n", " ") except the text that is one blank. *)

Blank == " "

\* str.strip()
RECURSIVE LStrip(_)
LStrip(t) == IF t # <<>> /\ Head(t) = Blank THEN LStrip(Tail(t)) ELSE t

RECURSIVE RStrip(_)
RStrip(t) == IF t # <<>> /\ t[Len(t)] = Blank THEN RStrip(SubSeq(t, 1, Len(t) - 1)) ELSE t

Strip(t) == RStrip(LStrip(t))

Texts == {Repeat("a", n) : n \in 0..MaxTextLen} \cup {<<Blank>>}

\* A file of the input directory: its suffix, the text a loader reads from it,
\* and whether the PDF loader can read it.
File(path, suffix, text, readable) ==
    [path |-> path, suffix |-> suffix, text |-> text, readable |-> readable]

FileKinds ==
    {[suffix |-> ".pdf", text |-> t, readable |-> TRUE] : t \in Texts}
    \cup {[suffix |-> ".pdf", text |-> <<>>, readable |-> FALSE],
          [suffix |-> ".txt", text |-> <<"a">>, readable |-> TRUE],
          [suffix |-> ".csv", text |-> <<"a">>, readable |-> TRUE]}

PathOf(i) == <<"f", i>>

\* The directory trees tried: the files in the order rglob("*") yields them.
Directories ==
    UNION {[1..n -> FileKinds] : n \in 0..MaxFiles}

DefaultExtensions == {".pdf"}

\* DocumentProcessor._load_pdf: PyPDFLoader(path).load_and_split(), which
\* raises on a file it cannot read.
load_pdf(path, f) == <<[page_content |-> f.text, source |-> path]>>

\* DocumentProcessor._load_text reads the file into one document.
load_text(path, f) == <<[page_content |-> f.text, source |-> path]>>

\* DocumentProcessor._load_all_documents: the loop over the files, from file i
\* on, with the documents loaded so far.
RECURSIVE load_files(_, _, _, _)
load_files(dir, exts, i, documents) ==
    IF i > Len(dir) THEN [err |-> NoErr, documents |-> documents]
    ELSE IF dir[i].suffix \notin exts THEN load_files(dir, exts, i + 1, documents)
    ELSE IF dir[i].suffix = ".pdf"
    THEN IF dir[i].readable
         THEN load_files(dir, exts, i + 1, documents \o load_pdf(PathOf(i), dir[i]))
         ELSE [err |-> Err("PdfReadError", "cannot read file"), documents |-> <<>>]
    ELSE IF dir[i].suffix \in {".txt", ".md"}
    THEN load_files(dir, exts, i + 1, documents \o load_text(PathOf(i), dir[i]))
    ELSE [err |-> Err("ValueError", "Unsupported file extension"), documents |-> <<>>]

load_all_documents(o, exists, dir) ==
    IF ~HasAttr(o, "input_dir")
    THEN [err |-> AttributeError("input_dir"), documents |-> <<>>]
    ELSE IF ~exists
    THEN [err |-> Err("FileNotFoundError", "Input directory not found"), documents |-> <<>>]
    ELSE load_files(dir, IF HasAttr(o, "extensions") THEN o.extensions ELSE DefaultExtensions,
                    1, <<>>)

\* DocumentProcessor._clean_text: basic normalisation of a page's text.
clean_text(t) == Strip(t)

\* process_documents, step 2: documents whose cleaned text is blank are dropped.
RECURSIVE clean_docs(_)
clean_docs(raw) ==
    IF raw = <<>> THEN <<>>
    ELSE LET text == clean_text(Head(raw).page_content)
         IN  (IF Strip(text) # <<>>
              THEN <<[page_content |-> text, source |-> Head(raw).source]>> ELSE <<>>)
             \o clean_docs(Tail(raw))

\* TextSplitter._merge_splits, the loop that drops the head of the current
\* window after a chunk was emitted.
RECURSIVE PopWindow(_, _, _)
PopWindow(total, chunk_size, chunk_overlap) ==
    IF total > chunk_overlap \/ (total + 1 > chunk_size /\ total > 0)
    THEN PopWindow(total - 1, chunk_size, chunk_overlap)
    ELSE total

\* TextSplitter._merge_splits over the characters of text from character i on;
\* the current window is the `total` characters before i.
RECURSIVE merge_splits(_, _, _, _, _, _)
merge_splits(text, i, total, docs, chunk_size, chunk_overlap) ==
    LET window == SubSeq(text, i - total, i - 1)
    IN  IF i > Len(text)
        THEN IF total > 0 THEN Append(docs, window) ELSE docs
        ELSE IF total + 1 > chunk_size /\ total > 0
        THEN merge_splits(text, i + 1, PopWindow(total, chunk_size, chunk_overlap) + 1,
                          Append(docs, window), chunk_size, chunk_overlap)
        ELSE merge_splits(text, i + 1, total + 1, docs, chunk_size, chunk_overlap)

\* RecursiveCharacterTextSplitter.split_text on a text without separators: the
\* characters are the splits; a split not shorter than chunk_size is a chunk of
\* its own, the others are merged into windows.
split_text(text, chunk_size, chunk_overlap) ==
    IF 1 < chunk_size
    THEN merge_splits(text, 1, 0, <<>>, chunk_size, chunk_overlap)
    ELSE [i \in 1..Len(text) |-> <<text[i]>>]

\* splitter.split_documents(cleaned_docs): the chunks of each document, in order.
RECURSIVE split_documents(_, _, _)
split_documents(docs, chunk_size, chunk_overlap) ==
    IF docs = <<>> THEN <<>>
    ELSE LET texts == split_text(Head(docs).page_content, chunk_size, chunk_overlap)
         IN  [j \in 1..Len(texts) |-> [page_content |-> texts[j], source |-> Head(docs).source]]
             \o split_documents(Tail(docs), chunk_size, chunk_overlap)

\* Chunk indices that restart with every source document.
add_chunk_index_per_document(chunked_docs, chunk_size, chunk_overlap) ==
    [idx \in 1..Len(chunked_docs) |->
        [page_content |-> chunked_docs[idx].page_content,
         source |-> chunked_docs[idx].source,
         chunk_index |-> Cardinality({j \in 1..(idx - 1) :
                                         chunked_docs[j].source = chunked_docs[idx].source}),
         chunk_size |-> chunk_size,
         chunk_overlap |-> chunk_overlap]]

\* process_documents, step 4: for idx, doc in enumerate(chunked_docs).
add_chunk_index(chunked_docs, chunk_size, chunk_overlap) ==
    [idx \in 1..Len(chunked_docs) |->
        [page_content |-> chunked_docs[idx].page_content,
         source |-> chunked_docs[idx].source,
         chunk_index |-> idx - 1,
         chunk_size |-> chunk_size,
         chunk_overlap |-> chunk_overlap]]

ProcResult(err, chunks, nsplit) == [err |-> err, chunks |-> chunks, nsplit |-> nsplit]

\* DocumentProcessor.process_documents.  nsplit: the documents handed to the
\* splitter (-1: split_documents was not called).
process_documents_result(o, exists, dir) ==
    LET raw == load_all_documents(o, exists, dir)
    IN  IF raw.err # NoErr THEN ProcResult(raw.err, <<>>, -1)
        ELSE LET cleaned_docs == clean_docs(raw.documents)
             IN  IF ~HasAttr(o, "chunk_size") THEN ProcResult(AttributeError("chunk_size"), <<>>, -1)
                 ELSE IF ~HasAttr(o, "chunk_overlap")
                 THEN ProcResult(AttributeError("chunk_overlap"), <<>>, -1)
                 ELSE IF o.chunk_overlap > o.chunk_size
                 THEN ProcResult(Err("ValueError", "Got a larger chunk overlap than chunk size"),
                                 <<>>, -1)
                 ELSE ProcResult(NoErr,
                                 add_chunk_index(
                                     split_documents(cleaned_docs, o.chunk_size, o.chunk_overlap),
                                     o.chunk_size, o.chunk_overlap),
                                 Len(cleaned_docs))

\* Options objects handed to DocumentProcessor.
ProcessorOpt(cs, co) == [input_dir |-> "data", chunk_size |-> cs, chunk_overlap |-> co]

ProcessorOptExt(cs, co, exts) ==
    [input_dir |-> "data", chunk_size |-> cs, chunk_overlap |-> co, extensions |-> exts]

ProcessorOpts ==
    {TrainOptions_parse(c) : c \in CommandLines}
    \cup {ProcessorOpt(cs, co) : cs \in 1..MaxChunkSize, co \in 0..MaxChunkSize}
    \cup {ProcessorOptExt(cs, co, {".pdf", ".txt", ".csv"}) :
            cs \in 1..MaxChunkSize, co \in 0..MaxChunkSize}

-----------------------------------------------------------------------------
(* components/llms.py, components/embeddings.py.  A Python value whose type
   decides the outcome is tagged: [str |-> s] or [list |-> l]; the empty
   string stands for an argument left at None. *)

Lower(s) ==
    CASE s = "OpenAI" -> "openai"
      [] s = "Antropic" -> "antropic"
      [] s = "Google" -> "google"
      [] OTHER -> s

OpenAIModels == {"gpt-4o", "gpt-4o-mini", "gpt-4", "gpt-3.5-turbo"}
AnthropicModels == {"claude-2", "claude-instant-100k", "claude-1", "claude-1.3"}
LLMAttrs == {"temperature", "max_tokens", "timeout"}

ModelResult(err, model) == [err |-> err, model |-> model]

\* The provider's constructor, called inside try/except Exception.
construct_llm(o, provider, msg, ok) ==
    IF ~(LLMAttrs \subseteq DOMAIN o) THEN ModelResult(Wrap(msg, AttributeError("temperature")), "")
    ELSE IF ~ok THEN ModelResult(Wrap(msg, Err("ImportError", "cannot construct")), "")
    ELSE ModelResult(NoErr, provider)

\* GetLLM.get_chat_model
get_chat_model(o, provider_name, model_name, ok) ==
    IF provider_name = "" /\ ~HasAttr(o, "LLMProvider")
    THEN ModelResult(AttributeError("LLMProvider"), "")
    ELSE IF provider_name = "" /\ ~HasAttr(o.LLMProvider, "str")
    THEN ModelResult(AttributeError("lower"), "")
    ELSE IF model_name = "" /\ ~HasAttr(o, "LLMModel")
    THEN ModelResult(AttributeError("LLMModel"), "")
    ELSE LET llm_name == IF provider_name # "" THEN provider_name ELSE Lower(o.LLMProvider.str)
             model == IF model_name # "" THEN model_name ELSE o.LLMModel
         IN  IF llm_name = "" \/ model = ""
             THEN ModelResult(Err("ValueError", "No LLM provider or modelname specified"), "")
             ELSE IF llm_name = "openai" /\ model \in OpenAIModels
             THEN construct_llm(o, "ChatOpenAI", "Failed to initialize OpenAI LLM", ok)
             ELSE IF llm_name = "antropic" /\ model \in AnthropicModels
             THEN construct_llm(o, "ChatAnthropic", "Failed to initialize Anthropic LLM", ok)
             ELSE IF llm_name = "google"
             THEN ModelResult(Err("TypeError", "string indices must be integers"), "")
             ELSE ModelResult(Err("ValueError", "Unknown LLM provider"), "")

EmbeddingProviders == {"openai", "cohere", "google_palm", "vertexai", "bedrock"}

\* GetEmbeddings.get_embedding_models
get_embedding_models(o, embedding_name, ok) ==
    LET name == IF embedding_name # "" THEN embedding_name
                ELSE IF HasAttr(o, "EmbeddingModel") THEN o.EmbeddingModel ELSE ""
        msg == "Failed to initialize embeddings"
    IN  IF name = ""
        THEN ModelResult(Err("ValueError", "No embedding provider specified"), "")
        ELSE IF name \in EmbeddingProviders
        THEN IF ok THEN ModelResult(NoErr, name)
             ELSE ModelResult(Wrap(msg, Err("ImportError", "cannot construct")), "")
        ELSE IF ~HasAttr(o, "EmbeddingModel")
        THEN ModelResult(Wrap(msg, AttributeError("EmbeddingModel")), "")
        ELSE ModelResult(Wrap(msg, Err("ValueError", "Unknown embedding provider")), "")

-----------------------------------------------------------------------------
(* The callers: every public operation may be called at any time. *)

\* The chunk batches the callers of the store hand over: none or one chunk.
DocBatches == {<<>>, <<ChunkNames[1]>>}

\* include_source as the callers pass it: train.py passes True, which is also
\* the default of both functions.
IncludeSource == {TRUE}

IngestOps == {"add_graph_documents", "create_knowledge_graph"}

\* This ingest succeeds with the graph documents the previous call ingested.
Again(gds, include_source, err) ==
    /\ err = NoErr
    /\ lastOp.op \in IngestOps
    /\ lastOp.err = NoErr
    /\ lastOp.frags = gds
    /\ lastOp.include_source = include_source

Apply(r) ==
    /\ graph' = r.graph
    /\ vector' = r.vector
    /\ db' = r.db
    /\ UNCHANGED <<opt, runPc, runLog, proc, factory>>

_connection ==
    \E ok \in BOOLEAN :
        LET r == connection_result(opt, graph, vector, db, ok)
        IN  /\ Apply(r)
            /\ lastOp' = Op("_connection", r.err, r.calls)

clear ==
    \E ok \in BOOLEAN :
        LET r == clear_result(graph, vector, db, ok)
        IN  /\ Apply(r)
            /\ lastOp' = Op("clear", r.err, r.calls)

add_graph_documents ==
    \E docs \in DocBatches, include_source \in IncludeSource, ok \in BOOLEAN :
      \E cands \in [1..Len(docs) -> Candidates] :
        LET gds == convert_to_graph_documents(docs, cands, {}, {})
            r == add_graph_documents_result(graph, vector, db, gds, include_source, ok)
        IN  /\ Apply(r)
            /\ lastOp' = [Op("add_graph_documents", r.err, r.calls)
                          EXCEPT !.frags = gds, !.include_source = include_source,
                                 !.again = Again(gds, include_source, r.err)]

create_hybrid_indexes ==
    \E ok \in BOOLEAN :
        LET r == create_hybrid_indexes_result(opt, graph, vector, db, ok)
        IN  /\ Apply(r)
            /\ lastOp' = [Op("create_hybrid_indexes", r.err, r.calls)
                          EXCEPT !.handle = IF r.err = NoErr THEN r.vector ELSE Unset,
                                 !.prev = vector]

similarity_search ==
    \E with_score \in BOOLEAN, ok \in BOOLEAN :
        LET r == similarity_search_result(graph, vector, db, with_score, ok)
        IN  /\ Apply(r)
            /\ lastOp' = [Op("similarity_search", r.err, r.calls)
                          EXCEPT !.mode = "vector", !.out = r.out, !.handle = r.handle]

hybrid_search ==
    \E with_score \in BOOLEAN, ok \in BOOLEAN :
        LET r == hybrid_search_result(graph, vector, db, with_score, ok)
        IN  /\ Apply(r)
            /\ lastOp' = [Op("hybrid_search", r.err, r.calls)
                          EXCEPT !.mode = "hybrid", !.out = r.out, !.handle = r.handle]

\* The allow-lists an options object states, under either spelling.
Items(t) == {t[i] : i \in 1..Len(t)}

ConfiguredNodes(o) ==
    IF HasAttr(o, "AllowedNodes") THEN Items(o.AllowedNodes) ELSE getattr(o, "allowed_nodes")

ConfiguredRelationships(o) ==
    IF HasAttr(o, "AllowedRelationships") THEN Items(o.AllowedRelationships)
    ELSE getattr(o, "allowed_relationships")

create_knowledge_graph ==
    \E o \in GraphOpts, docs \in DocBatches, include_source \in IncludeSource, ok \in BOOLEAN :
      \E cands \in [1..Len(docs) -> Candidates], failAt \in 0..Len(docs) :
        LET r == create_knowledge_graph_result(o, graph, vector, db, docs, cands, failAt,
                                               include_source, ok)
        IN  /\ Apply(r)
            /\ lastOp' = [Op("create_knowledge_graph", r.err, r.calls)
                          EXCEPT !.frags = r.gds, !.include_source = include_source,
                                 !.again = Again(r.gds, include_source, r.err),
                                 !.cfgNodes = ConfiguredNodes(o),
                                 !.cfgRels = ConfiguredRelationships(o),
                                 !.ndocs = Len(docs), !.failAt = failAt]

cypher_qa ==
    \E genOk \in BOOLEAN, ok \in BOOLEAN :
        LET r == cypher_qa_result(graph, vector, db, genOk, ok)
        IN  /\ Apply(r)
            /\ lastOp' = [Op("cypher_qa", r.err, r.calls) EXCEPT !.schema = r.schema]

-----------------------------------------------------------------------------
(* train.py: run().  One step of run() is one numbered statement of its body. *)

\* The methods class Neo4jStore defines.
Neo4jStoreMethods ==
    {"__init__", "_connection", "clear", "add_graph_documents", "create_hybrid_indexes",
     "similarity_search", "hybrid_search"}

\* Exceptions a failing external capability raises (file system, PDF loader,
\* database, model provider).
CapabilityErrors ==
    {"FileNotFoundError", "PdfReadError", "ServiceUnavailable", "ClientError", "APIError",
     "ImportError"}

RunStart == [cli |-> <<>>, stages |-> <<>>, calls |-> <<>>, err |-> NoErr,
             capFailed |-> FALSE, chunks |-> 0]

RunState(pc, log, o, g, v, d) ==
    [pc |-> pc, log |-> log, opt |-> o, graph |-> g, vector |-> v, db |-> d]

Done(log, stage) == [log EXCEPT !.stages = Append(@, stage)]

Called(log, calls) == [log EXCEPT !.calls = @ \o calls]

Failed(log, err, o, g, v, d) ==
    RunState("failed",
             [log EXCEPT !.err = err,
                         !.capFailed = err.type \in CapabilityErrors
                                       \/ err.ctype \in CapabilityErrors],
             o, g, v, d)

Min(a, b) == IF a < b THEN a ELSE b

\* The statement of run() at position pc, on the store (o, g, v, d) run() works
\* with.  cli, exists, dir, cand, failAt, ok are what the environment supplies:
\* the command line, the input directory, the extraction model's answer, the
\* chunk it fails on, and whether the external call of the statement succeeds.
run_step(pc, log, o, g, v, d, cli, exists, dir, cand, failAt, ok) ==
    LET ropt == TrainOptions_parse(log.cli)
    IN
    CASE pc = "start" ->
            \* 1. opt = TrainOptions().parse()
            RunState("process", Done([log EXCEPT !.cli = cli], "parse"), o, g, v, d)
      [] pc = "process" ->
            \* 2. docs = DocumentProcessor(opt).process_documents()
            LET r == process_documents_result(ropt, exists, dir)
            IN  IF r.err # NoErr THEN Failed(log, r.err, o, g, v, d)
                ELSE RunState("connect",
                              Done(Done([log EXCEPT !.chunks = Len(r.chunks)], "load"), "chunk"),
                              o, g, v, d)
      [] pc = "connect" ->
            \* 3. store = Neo4jStore(opt); graph = store.connect()
            IF "connect" \notin Neo4jStoreMethods
            THEN Failed(log, AttributeError("connect"), ropt, None, Unset, d)
            ELSE LET r == connection_result(ropt, None, Unset, d, ok)
                 IN  IF r.err # NoErr
                     THEN Failed(Called(log, r.calls), r.err, ropt, r.graph, r.vector, d)
                     ELSE RunState("llm", Done(Called(log, r.calls), "connect"),
                                   ropt, r.graph, r.vector, d)
      [] pc = "llm" ->
            \* 4. llms = GetLLM(opt).get_chat_model()
            LET r == get_chat_model(o, "", "", ok)
            IN  IF r.err # NoErr THEN Failed(log, r.err, o, g, v, d)
                ELSE RunState("ingest", log, o, g, v, d)
      [] pc = "ingest" ->
            \* 5. create_knowledge_graph(docs=docs, opt=opt, graph=graph, llm=llms,
            \*    include_source=True)
            LET n == Min(log.chunks, Len(ChunkNames))
                r == create_knowledge_graph_result(o, g, v, d, [i \in 1..n |-> ChunkNames[i]],
                                                   [i \in 1..n |-> cand], Min(failAt, n),
                                                   TRUE, ok)
            IN  IF r.err # NoErr
                THEN Failed(Called(log, r.calls), r.err, o, r.graph, r.vector, r.db)
                ELSE RunState("embed", Done(Done(Called(log, r.calls), "extract"), "ingest"),
                              o, r.graph, r.vector, r.db)
      [] pc = "embed" ->
            \* 6. opt.embeddings = GetEmbeddings(opt).get_embedding_models()
            LET r == get_embedding_models(o, "", ok)
            IN  IF r.err # NoErr THEN Failed(log, r.err, o, g, v, d)
                ELSE RunState("index", log, ("embeddings" :> r.model) @@ o, g, v, d)
      [] pc = "index" ->
            \*    store.create_hybrid_indexes()
            LET r == create_hybrid_indexes_result(o, g, v, d, ok)
            IN  IF r.err # NoErr
                THEN Failed(Called(log, r.calls), r.err, o, r.graph, r.vector, r.db)
                ELSE RunState("qa", Done(Called(log, r.calls), "index"),
                              o, r.graph, r.vector, r.db)
      [] pc = "qa" ->
            \* 7. if opt.test_knowledge_graph: cypher_qa(...)
            IF ~HasAttr(o, "test_knowledge_graph")
            THEN Failed(log, AttributeError("test_knowledge_graph"), o, g, v, d)
            ELSE IF ~o.test_knowledge_graph THEN RunState("done", log, o, g, v, d)
            ELSE LET r == cypher_qa_result(g, v, d, ok, ok)
                 IN  IF r.err # NoErr
                     THEN Failed(Called(log, r.calls), r.err, o, r.graph, r.vector, r.db)
                     ELSE RunState("done", Done(Called(log, r.calls), "answer"),
                                   o, r.graph, r.vector, r.db)

\* The input directories run() is tried on.
RunDirectories == UNION {[1..n -> FileKinds] : n \in 0..Min(1, MaxFiles)}

Only(cond, S, dflt) == IF cond THEN S ELSE {dflt}

run ==
    /\ runPc \notin {"done", "failed"}
    /\ \E cli \in Only(runPc = "start", CommandLines, <<>>),
          exists \in Only(runPc = "process", BOOLEAN, TRUE),
          dir \in Only(runPc = "process", RunDirectories, <<>>),
          cand \in Only(runPc = "ingest", Candidates, CHOOSE c \in Candidates : TRUE),
          failAt \in Only(runPc = "ingest", 0..1, 0),
          ok \in Only(runPc \notin {"start", "process"}, BOOLEAN, TRUE) :
        LET s == run_step(runPc, runLog, opt, graph, vector, db,
                          cli, exists, dir, cand, failAt, ok)
        IN  /\ runPc' = s.pc
            /\ runLog' = s.log
            /\ opt' = s.opt
            /\ graph' = s.graph
            /\ vector' = s.vector
            /\ db' = s.db
            /\ UNCHANGED <<lastOp, proc, factory>>

-----------------------------------------------------------------------------
(* The store and its callers *)

\* No GetLLM / GetEmbeddings call has been made.
NoFactory ==
    [kind |-> "none", opt |-> TrainOptions_parse(<<>>), provider_name |-> "", model_name |-> "",
     ok |-> TRUE, called |-> FALSE, result |-> ModelResult(NoErr, "")]

NoProc == [opt |-> ProcessorOpt(1, 0), exists |-> TRUE, dir |-> <<>>, called |-> FALSE,
           result |-> ProcResult(NoErr, <<>>, -1)]

Init ==
    /\ opt \in StoreOpts
    /\ graph = None
    /\ vector = Unset
    /\ db = EmptyDb
    /\ lastOp = NoOp
    /\ runPc = "start"
    /\ runLog = RunStart
    /\ proc = NoProc
    /\ factory = NoFactory

Next ==
    \/ _connection
    \/ clear
    \/ add_graph_documents
    \/ create_hybrid_indexes
    \/ similarity_search
    \/ hybrid_search
    \/ create_knowledge_graph
    \/ cypher_qa
    \/ run

Spec == Init /\ [][Next]_vars

-----------------------------------------------------------------------------
(* The document processor on its own: the options object and the directory
   are drawn at the start, process_documents is applied to them. *)

process_documents ==
    /\ ~proc.called
    /\ proc' = [proc EXCEPT !.called = TRUE,
                            !.result = process_documents_result(proc.opt, proc.exists, proc.dir)]
    /\ UNCHANGED <<opt, graph, vector, db, lastOp, runPc, runLog, factory>>

InitDocs ==
    /\ opt = ComponentOpt("hybrid", {}, {})
    /\ graph = None
    /\ vector = Unset
    /\ db = EmptyDb
    /\ lastOp = NoOp
    /\ runPc = "start"
    /\ runLog = RunStart
    /\ factory = NoFactory
    /\ \E o \in ProcessorOpts, exists \in BOOLEAN, dir \in Directories :
          /\ exists \/ dir = <<>>
          /\ proc = [opt |-> o, exists |-> exists, dir |-> dir, called |-> FALSE,
                     result |-> ProcResult(NoErr, <<>>, -1)]

NextDocs == process_documents

SpecDocs == InitDocs /\ [][NextDocs]_vars

-----------------------------------------------------------------------------
(* The index handle: the caller connects, sets opt.embeddings (the options
   object is the one the store keeps as self._opt), builds the indexes and
   searches, in any order. *)

IndexEmbeddingNames == {"openai", "cohere", "word2vec"}

\* train.py: opt.embeddings = GetEmbeddings(opt).get_embedding_models()
set_embeddings ==
    \E embedding_name \in IndexEmbeddingNames, ok \in BOOLEAN :
        LET r == get_embedding_models(opt, embedding_name, ok)
        IN  /\ opt' = IF r.err = NoErr THEN ("embeddings" :> r.model) @@ opt ELSE opt
            /\ lastOp' = Op("get_embedding_models", r.err, <<>>)
            /\ UNCHANGED <<graph, vector, db, runPc, runLog, proc, factory>>

NextIndex ==
    \/ _connection
    \/ set_embeddings
    \/ create_hybrid_indexes
    \/ similarity_search
    \/ hybrid_search

SpecIndex == Init /\ [][NextIndex]_vars

-----------------------------------------------------------------------------
(* Extraction over batches of several chunks: the store is connected and
   create_knowledge_graph is called with the store's options on every batch
   of chunks. *)

ExtractBatches == {[i \in 1..n |-> ChunkNames[i]] : n \in 0..Len(ChunkNames)}

create_knowledge_graph_batch ==
    \E docs \in ExtractBatches, ok \in BOOLEAN :
      \E cands \in [1..Len(docs) -> Candidates], failAt \in 0..Len(docs) :
        LET r == create_knowledge_graph_result(opt, graph, vector, db, docs, cands, failAt,
                                               TRUE, ok)
        IN  /\ Apply(r)
            /\ lastOp' = [Op("create_knowledge_graph", r.err, r.calls)
                          EXCEPT !.frags = r.gds, !.include_source = TRUE,
                                 !.again = Again(r.gds, TRUE, r.err),
                                 !.cfgNodes = ConfiguredNodes(opt),
                                 !.cfgRels = ConfiguredRelationships(opt),
                                 !.ndocs = Len(docs), !.failAt = failAt]

NextExtract ==
    \/ _connection
    \/ create_knowledge_graph_batch

SpecExtract == Init /\ [][NextExtract]_vars

-----------------------------------------------------------------------------
(* The model factories on their own: the options object and the arguments are
   drawn at the start, get_chat_model / get_embedding_models is applied. *)

\* An options object carrying what GetLLM and GetEmbeddings read.
FactoryOpt(p, m, e) ==
    [LLMProvider |-> [str |-> p], LLMModel |-> m, temperature |-> 0, max_tokens |-> 256,
     timeout |-> 30, EmbeddingModel |-> e]

\* The same without EmbeddingModel.
FactoryOptNoEmbedding(p, m) ==
    [LLMProvider |-> [str |-> p], LLMModel |-> m, temperature |-> 0, max_tokens |-> 256,
     timeout |-> 30]

FactoryOpts ==
    {TrainOptions_parse(cli) : cli \in CommandLines}
      \cup {FactoryOpt("OpenAI", "gpt-4o", e) : e \in {"openai", "OpenAI", "word2vec"}}
      \cup {FactoryOptNoEmbedding("Google", "gemini-pro")}

ProviderNames == {"", "openai", "anthropic", "antropic", "google", "mistral"}
ModelNames == {"", "gpt-4o", "claude-2", "gemini-pro", "llama"}
EmbeddingNames == {"", "openai", "OpenAI", "cohere", "word2vec"}

GetLLM_get_chat_model ==
    /\ factory.kind = "llm"
    /\ ~factory.called
    /\ factory' = [factory EXCEPT
                      !.called = TRUE,
                      !.result = get_chat_model(factory.opt, factory.provider_name,
                                                factory.model_name, factory.ok)]
    /\ UNCHANGED <<opt, graph, vector, db, lastOp, runPc, runLog, proc>>

GetEmbeddings_get_embedding_models ==
    /\ factory.kind = "embeddings"
    /\ ~factory.called
    /\ factory' = [factory EXCEPT
                      !.called = TRUE,
                      !.result = get_embedding_models(factory.opt, factory.provider_name,
                                                      factory.ok)]
    /\ UNCHANGED <<opt, graph, vector, db, lastOp, runPc, runLog, proc>>

InitModels ==
    /\ opt = ComponentOpt("hybrid", {}, {})
    /\ graph = None
    /\ vector = Unset
    /\ db = EmptyDb
    /\ lastOp = NoOp
    /\ runPc = "start"
    /\ runLog = RunStart
    /\ proc = NoProc
    /\ \E o \in FactoryOpts, ok \in BOOLEAN :
          \/ \E p \in ProviderNames, m \in ModelNames :
                factory = [kind |-> "llm", opt |-> o, provider_name |-> p, model_name |-> m,
                           ok |-> ok, called |-> FALSE, result |-> ModelResult(NoErr, "")]
          \/ \E e \in EmbeddingNames :
                factory = [kind |-> "embeddings", opt |-> o, provider_name |-> e,
                           model_name |-> "", ok |-> ok, called |-> FALSE,
                           result |-> ModelResult(NoErr, "")]

NextModels ==
    \/ GetLLM_get_chat_model
    \/ GetEmbeddings_get_embedding_models

SpecModels == InitModels /\ [][NextModels]_vars

-----------------------------------------------------------------------------
(* Properties *)

\* A step taken by a caller of the store (not by run()).
CallerStep == runPc' = runPc /\ runLog' = runLog

IsNotConnected(e) ==
    /\ e.type = "RuntimeError"
    /\ \/ e.msg \in {"Graph not connected", "Graph not connected."}
       \/ e.ctype = "RuntimeError" /\ e.cause = "Graph not connected"

GuardedOps ==
    {"clear", "add_graph_documents", "create_knowledge_graph", "create_hybrid_indexes",
     "cypher_qa"}

\* C1: while the store has not connected (self.graph is None), a call of clear,
\* add_graph_documents, create_knowledge_graph, create_hybrid_indexes or
\* cypher_qa raises the "Graph not connected" RuntimeError, issues no call to
\* the database, the index or a model, and leaves graph, vector and the
\* database as they were.
C1_NotConnectedFails ==
    [][(~graph.connected /\ CallerStep /\ lastOp'.op \in GuardedOps)
         => /\ IsNotConnected(lastOp'.err)
            /\ lastOp'.calls = <<>>
            /\ graph' = graph /\ vector' = vector /\ db' = db]_vars

C1_Witness ==
    /\ ~graph.connected
    /\ lastOp.op = "create_knowledge_graph"
    /\ IsNotConnected(lastOp.err)
    /\ HasAttr(opt, "uri")

\* Some node or relationship of the database is gone after the step.
Removed ==
    \/ \E k \in NodeUniverse : db'.nodes[k] < db.nodes[k]
    \/ \E k \in RelUniverse : db'.rels[k] < db.rels[k]

C4_ClearThenEmptySchema ==
    (lastOp.op = "clear" /\ lastOp.err = NoErr) => get_schema(graph) = EmptySchema

\* C6 (as claimed): a run of the pipeline in which no external capability
\* failed ends having answered.
C6_RunReachesAnswer ==
    (runPc \in {"done", "failed"} /\ ~runLog.capFailed) => "answer" \in Items(runLog.stages)

\* C7 (as claimed): with a non-empty allow-list of node labels configured, no
\* ingested graph document holds a node of another label or a relationship
\* touching one; with an allow-list of relationship types, none of another type.
C7_AllowListRespected ==
    (lastOp.op = "create_knowledge_graph" /\ lastOp.err = NoErr /\ lastOp.cfgNodes # {})
      => \A gd \in Items(lastOp.frags) :
            /\ \A n \in gd.nodes : n[1] \in lastOp.cfgNodes
            /\ \A r \in gd.rels : r[1][1] \in lastOp.cfgNodes /\ r[3][1] \in lastOp.cfgNodes
            /\ lastOp.cfgRels # {} => \A r \in gd.rels : r[2] \in lastOp.cfgRels

SearchOps == {"similarity_search", "hybrid_search"}

\* The search modes a handle built with search type st serves.
Supported(st) == IF st = "hybrid" THEN {"vector", "keyword", "hybrid"} ELSE {st}

IsUnsupportedMode(e) == e.type = "UnsupportedModeError" \/ e.msg = "Unsupported search mode"

\* C8 (as claimed): a search in a mode the active handle was not built for is
\* refused with the unsupported-mode error, without a call to the index.
C8_UnsupportedModeRefused ==
    (lastOp.op \in SearchOps /\ vector.state = "handle"
       /\ lastOp.mode \notin Supported(vector.search_type))
      => (IsUnsupportedMode(lastOp.err) /\ lastOp.calls = <<>>)

\* C9 (as claimed): while create_hybrid_indexes has never succeeded, a search
\* raises the RuntimeError "Vector index not initialized" and searches nothing.
C9_SearchBeforeIndex ==
    (lastOp.op \in SearchOps /\ vector.state # "handle")
      => /\ lastOp.err.type = "RuntimeError"
         /\ lastOp.err.msg = "Vector index not initialized. Call create_hybrid_indexes()."
         /\ lastOp.calls = <<>>

-----------------------------------------------------------------------------
(* Properties of process_documents *)

Returned == proc.called /\ proc.result.err = NoErr

\* C5: the chunks process_documents returns carry chunk_index 0, 1, .., n-1 in
\* output order over the whole batch.
C5_ChunkIndexDense ==
    Returned => \A i \in 1..Len(proc.result.chunks) : proc.result.chunks[i].chunk_index = i - 1

\* Two documents were split, the first into several chunks, and returned.
C5_Witness ==
    /\ Returned
    /\ \E i, j \in 1..Len(proc.result.chunks) :
          /\ i < j
          /\ proc.result.chunks[i].source = proc.result.chunks[1].source
          /\ i > 1
          /\ proc.result.chunks[j].source # proc.result.chunks[1].source

\* C10 (as claimed): when the documents load and chunk_overlap >= chunk_size,
\* process_documents fails before split_documents is called, with no chunks.
C10_OverlapRejected ==
    (/\ proc.called
     /\ load_all_documents(proc.opt, proc.exists, proc.dir).err = NoErr
     /\ HasAttr(proc.opt, "chunk_size") /\ HasAttr(proc.opt, "chunk_overlap")
     /\ proc.opt.chunk_overlap >= proc.opt.chunk_size)
      => /\ proc.result.err.type = "ValueError"
         /\ proc.result.nsplit = -1
         /\ proc.result.chunks = <<>>

-----------------------------------------------------------------------------
(* Properties of the model factories *)

\* The provider name get_embedding_models resolves: the argument, else
\* opt.EmbeddingModel, else none.
EmbeddingNameOf(f) ==
    IF f.provider_name # "" THEN f.provider_name
    ELSE IF HasAttr(f.opt, "EmbeddingModel") THEN f.opt.EmbeddingModel ELSE ""

\* C11 (as claimed): get_embedding_models fails with ValueError when the
\* resolved provider name is missing or not recognized, with RuntimeError
\* when a recognized provider cannot be constructed, and otherwise returns
\* the embeddings of the resolved name, the argument taking precedence over
\* opt.EmbeddingModel.
C11_EmbeddingFailureKinds ==
    (factory.kind = "embeddings" /\ factory.called)
      => LET name == EmbeddingNameOf(factory)
             r == factory.result
         IN  IF name \notin EmbeddingProviders THEN r.err.type = "ValueError"
             ELSE IF ~factory.ok THEN r.err.type = "RuntimeError"
             ELSE r.err = NoErr /\ r.model = name

GoogleModels == {"gemini-pro", "gemini-1.5", "gemini-1.0"}

\* The provider/model pairs get_chat_model is to accept.
KnownGood ==
    ({"openai"} \X OpenAIModels) \cup ({"anthropic"} \X AnthropicModels)
      \cup ({"google"} \X GoogleModels)

\* C12 (as claimed): called with a provider and a model name, get_chat_model
\* returns a chat model (or the initialization RuntimeError) when the pair is
\* in the known-good table, and fails with ValueError, constructing nothing,
\* for every other pair.
C12_KnownGoodTable ==
    (/\ factory.kind = "llm" /\ factory.called
     /\ factory.provider_name # "" /\ factory.model_name # "")
      => LET r == factory.result
         IN  IF <<factory.provider_name, factory.model_name>> \in KnownGood
             THEN (r.err = NoErr /\ r.model # "") \/ r.err.type = "RuntimeError"
             ELSE r.err.type = "ValueError" /\ r.model = ""

-----------------------------------------------------------------------------
(* Properties of loading *)

ExtensionsOf(o) == IF HasAttr(o, "extensions") THEN o.extensions ELSE DefaultExtensions

\* File i of the directory is selected by the extensions and a loader reads it.
Loadable(dir, exts, i) ==
    /\ dir[i].suffix \in exts
    /\ \/ dir[i].suffix = ".pdf" /\ dir[i].readable
       \/ dir[i].suffix \in {".txt", ".md"}

\* The documents of the loadable files from file i on, in discovery order.
RECURSIVE LoadableDocuments(_, _, _)
LoadableDocuments(dir, exts, i) ==
    IF i > Len(dir) THEN <<>>
    ELSE IF Loadable(dir, exts, i)
    THEN load_pdf(PathOf(i), dir[i]) \o LoadableDocuments(dir, exts, i + 1)
    ELSE LoadableDocuments(dir, exts, i + 1)

\* C14 (as claimed): when the input directory exists and some selected file
\* is loadable (or none is selected), the load succeeds and yields exactly the
\* documents of the loadable files in discovery order, whatever other files
\* fail.
C14_FileFailureIsLocal ==
    (proc.called /\ proc.exists /\ HasAttr(proc.opt, "input_dir"))
      => LET exts == ExtensionsOf(proc.opt)
             r == load_all_documents(proc.opt, proc.exists, proc.dir)
             selected == {i \in 1..Len(proc.dir) : proc.dir[i].suffix \in exts}
         IN  (selected = {} \/ \E i \in selected : Loadable(proc.dir, exts, i))
               => /\ r.err = NoErr
                  /\ r.documents = LoadableDocuments(proc.dir, exts, 1)

-----------------------------------------------------------------------------
(* Properties of extraction *)

\* C15 (as claimed): when the extraction model fails on one chunk of a batch
\* of several, create_knowledge_graph still succeeds and has ingested a
\* fragment for every other chunk of the batch.
C15_ChunkFailureIsLocal ==
    (/\ lastOp.op = "create_knowledge_graph"
     /\ graph.connected
     /\ lastOp.ndocs > 1 /\ lastOp.failAt > 0)
      => /\ lastOp.err = NoErr
         /\ Len(lastOp.frags) = lastOp.ndocs - 1
         /\ \A i \in 1..lastOp.ndocs :
               i # lastOp.failAt => db.nodes[DocumentNode(ChunkNames[i])] > 0

-----------------------------------------------------------------------------
(* Properties of the index handle and of query answering *)

\* C13: the store holds one index handle, self.vector.  It changes only in a
\* successful create_hybrid_indexes, which makes the handle built from the
\* current options the active one whatever handle was active before; a search
\* that reaches the index goes through the active handle and leaves it as it is.
C13_OneActiveHandle ==
    [][/\ vector' # vector
           => (lastOp'.op = "create_hybrid_indexes" /\ lastOp'.err = NoErr)
       /\ (lastOp'.op = "create_hybrid_indexes" /\ lastOp'.err = NoErr)
           => /\ vector' = Neo4jVector(opt.embeddings, opt.search_type)
              /\ lastOp'.handle = vector'
       /\ (lastOp'.op \in SearchOps /\ "index.search" \in Items(lastOp'.calls))
           => (lastOp'.handle = vector /\ vector.state = "handle" /\ vector' = vector)]_vars

\* A successful create_hybrid_indexes has replaced a handle built with another
\* embedding by the handle it built.
C13_Witness ==
    /\ lastOp.op = "create_hybrid_indexes"
    /\ lastOp.err = NoErr
    /\ lastOp.prev.state = "handle"
    /\ lastOp.prev # vector
    /\ lastOp.handle = vector

\* C16 (as claimed): an answer request on a connected store reaches the
\* generation step with the schema the database has during the request.
C16_LiveSchema ==
    (lastOp.op = "cypher_qa" /\ graph.connected)
      => /\ "llm.generate" \in Items(lastOp.calls)
         /\ lastOp.schema = refresh_schema(db)

====
